---- MODULE Spec2Model ----
(***************************************************************************)
(* qb2pgsql: extraction of Address and EmergencyMedicalServices records   *)
(* from hospital quality reports (XML) and their upsert into the          *)
(* hospitals table.  Python values are tagged records, so that None, a    *)
(* string, an integer and a raised exception can be told apart.           *)
(***************************************************************************)
EXTENDS Integers, Sequences, FiniteSets, TLC

VARIABLES pc, doc, address, ems, hospital,
          files, hospitals, cursor, session, table, table0, error

vars == <<pc, doc, address, ems, hospital,
          files, hospitals, cursor, session, table, table0, error>>

extractVars == <<doc, address, ems, hospital>>
loaderVars == <<files, hospitals, cursor, session, table, table0, error>>

(***************************************************************************)
(* Bounds of the model.                                                    *)
(***************************************************************************)
\* longest list of tier elements under Notfallstufe_zugeordnet
MaxLevels == 2
\* most files one run of main finds in data_dir
MaxFiles == 2

(***************************************************************************)
(* Python values.                                                          *)
(***************************************************************************)
None == [kind |-> "None"]
Unset == [kind |-> "unset"]
PyStr(s) == [kind |-> "str", s |-> s]
PyInt(n) == [kind |-> "int", v |-> n]
PyTuple(items) == [kind |-> "tuple", items |-> items]
PySetOf(rows) == [kind |-> "rows", rows |-> rows]
PyList(items) == [kind |-> "list", items |-> items]
Raise(e) == [kind |-> "raise", exc |-> e]
Elem(tag, text, children) ==
    [kind |-> "elem", tag |-> tag, text |-> text, children |-> children]

IsNone(x) == x.kind = "None"
IsRaise(x) == x.kind = "raise"

\* the value of a chain of evaluations: the first exception raised, else result
FirstRaise(vals, result) ==
    LET bad == {i \in DOMAIN vals : IsRaise(vals[i])}
    IN  IF bad = {} THEN result
        ELSE vals[CHOOSE i \in bad : \A j \in bad : i <= j]

\* Element.find(tag): the first child with that tag, or None
find(e, tag) ==
    IF IsRaise(e) THEN e
    ELSE IF IsNone(e) THEN Raise("AttributeError")
    ELSE LET hits == {i \in DOMAIN e.children : e.children[i].tag = tag}
         IN  IF hits = {} THEN None
             ELSE e.children[CHOOSE i \in hits : \A j \in hits : i <= j]

\* Element.text: the text of the element, None when it has none
text(e) ==
    IF IsRaise(e) THEN e
    ELSE IF IsNone(e) THEN Raise("AttributeError")
    ELSE e.text

Digits == {"0", "1", "2", "3", "4", "5", "6", "7", "8", "9"}

DigitValue(c) ==
    CASE c = "0" -> 0 [] c = "1" -> 1 [] c = "2" -> 2 [] c = "3" -> 3
      [] c = "4" -> 4 [] c = "5" -> 5 [] c = "6" -> 6 [] c = "7" -> 7
      [] c = "8" -> 8 [] c = "9" -> 9

RECURSIVE ParseDigits(_)
ParseDigits(s) ==
    IF s = <<>> THEN 0
    ELSE 10 * ParseDigits(SubSeq(s, 1, Len(s) - 1)) + DigitValue(s[Len(s)])

\* int(x) of a text made of letters and digits
int(x) ==
    IF IsRaise(x) THEN x
    ELSE IF IsNone(x) THEN Raise("TypeError")
    ELSE IF x.s # <<>> /\ \A i \in DOMAIN x.s : x.s[i] \in Digits
         THEN PyInt(ParseDigits(x.s))
         ELSE Raise("ValueError")

\* the tags collected back to front
TagsOf_Reversed(node) ==
    [i \in DOMAIN node.children |->
        node.children[Len(node.children) + 1 - i].tag]

\* tuple(elm.tag for elm in node)
TagsOf(node) == [i \in DOMAIN node.children |-> node.children[i].tag]

(***************************************************************************)
(* The records of qb2pgsql/main.py.                                        *)
(***************************************************************************)
Address(ik, loc, street, city, house_number, zip_code) ==
    [kind |-> "Address", ik_number |-> ik, location_id |-> loc,
     street |-> street, city |-> city, house_number |-> house_number,
     zip_code |-> zip_code]

EmergencyMedicalServices(ik, loc, provides, levels) ==
    [kind |-> "EmergencyMedicalServices", ik_number |-> ik,
     location_id |-> loc, provides_services |-> provides, levels |-> levels]

ReportID(ik, loc) ==
    [kind |-> "ReportID", ik_number |-> ik, location_id |-> loc]

\* a handler that names AttributeError alone
ExceptionCaught_AttributeErrorOnly(exc) == exc = "AttributeError"

\* "except Exception": every exception class met here derives from Exception
ExceptionCaught(exc) ==
    exc \in {"AttributeError", "TypeError", "ValueError", "ParseError",
             "OperationalError", "ProgrammingError", "IntegrityError"}

\* try: body / except Exception: log, and fall off the end (return None)
TryExcept(body) ==
    IF IsRaise(body) /\ ExceptionCaught(body.exc) THEN None ELSE body

get_standort(root) ==
    LET standorte == find(find(root, "Krankenhaus"), "Mehrere_Standorte")
    IN  IF IsRaise(standorte) THEN standorte
        ELSE IF ~IsNone(standorte)
        THEN find(standorte, "Standortkontaktdaten")
        ELSE find(find(find(root, "Krankenhaus"), "Ein_Standort"),
                  "Krankenhauskontaktdaten")

get_report_id(root) ==
    LET standort == get_standort(root)
        standort_nummer == text(find(standort, "Standortnummer"))
        ik_nummer == text(find(standort, "IK"))
        ik == int(ik_nummer)
        nr == int(standort_nummer)
    IN  FirstRaise(<<standort, standort_nummer, ik_nummer, ik, nr>>,
                   ReportID(ik, nr))

get_address(root) ==
    LET standort == get_standort(root)
        report_id == get_report_id(root)
        zugang == find(standort, "Kontakt_Zugang")
        street == text(find(zugang, "Strasse"))
        city == text(find(zugang, "Ort"))
        house_number == text(find(zugang, "Hausnummer"))
        zip_code == int(text(find(zugang, "Postleitzahl")))
    IN  TryExcept(
          FirstRaise(<<standort, report_id, zugang, street, city,
                       house_number, zip_code>>,
                     Address(report_id.ik_number, report_id.location_id,
                             street, city, house_number, zip_code)))

\* the rule match with the assigned-tiers node looked at first
ClassifyLevel_AssignedFirst(report_id, level) ==
    LET no_services == find(level, "Keine_Teilnahme_Notfallversorgung")
        not_yet_arranged ==
            find(level, "Notfallstufe_Nichtteilnahme_noch_nicht_vereinbart")
        zugeordnet == find(level, "Notfallstufe_zugeordnet")
    IN  IF ~IsNone(zugeordnet)
        THEN EmergencyMedicalServices(report_id.ik_number,
                                      report_id.location_id, TRUE,
                                      PyTuple(TagsOf(zugeordnet)))
        ELSE IF ~IsNone(no_services) \/ ~IsNone(not_yet_arranged)
        THEN EmergencyMedicalServices(report_id.ik_number,
                                      report_id.location_id, FALSE, None)
        ELSE None

\* the rule match of lines 112-130, on a level element that is present
ClassifyLevel(report_id, level) ==
    LET no_services == find(level, "Keine_Teilnahme_Notfallversorgung")
        not_yet_arranged ==
            find(level, "Notfallstufe_Nichtteilnahme_noch_nicht_vereinbart")
        zugeordnet == find(level, "Notfallstufe_zugeordnet")
    IN  IF ~IsNone(no_services) \/ ~IsNone(not_yet_arranged)
        THEN EmergencyMedicalServices(report_id.ik_number,
                                      report_id.location_id, FALSE, None)
        ELSE IF ~IsNone(zugeordnet)
        THEN EmergencyMedicalServices(report_id.ik_number,
                                      report_id.location_id, TRUE,
                                      PyTuple(TagsOf(zugeordnet)))
        ELSE None

\* a missing Teilnahme_Notfallversorgung section taken as "no services"
get_emergency_medical_services_info_SectionOptional(root) ==
    LET report_id == get_report_id(root)
        section == find(root, "Teilnahme_Notfallversorgung")
        level == IF IsNone(section) THEN None
                 ELSE find(section, "Teilnahme_Notfallstufe")
    IN  TryExcept(
          IF IsRaise(report_id) THEN report_id
          ELSE IF IsRaise(level) THEN level
          ELSE IF IsNone(level)
          THEN EmergencyMedicalServices(report_id.ik_number,
                                        report_id.location_id, FALSE, None)
          ELSE ClassifyLevel(report_id, level))

\* the level element used without the "level is None" test
get_emergency_medical_services_info_NoLevelTest(root) ==
    LET report_id == get_report_id(root)
        section == find(root, "Teilnahme_Notfallversorgung")
        level == find(section, "Teilnahme_Notfallstufe")
    IN  TryExcept(
          IF IsRaise(report_id) THEN report_id
          ELSE IF IsRaise(level) THEN level
          ELSE IF IsNone(level) THEN Raise("AttributeError")
          ELSE ClassifyLevel(report_id, level))

get_emergency_medical_services_info(root) ==
    LET report_id == get_report_id(root)
        section == find(root, "Teilnahme_Notfallversorgung")
        level == find(section, "Teilnahme_Notfallstufe")
    IN  TryExcept(
          IF IsRaise(report_id) THEN report_id
          ELSE IF IsRaise(level) THEN level
          ELSE IF IsNone(level)
          THEN EmergencyMedicalServices(report_id.ik_number,
                                        report_id.location_id, FALSE, None)
          ELSE ClassifyLevel(report_id, level))

build_hospital(a, e) ==
    [ik_number |-> a.ik_number, location_id |-> a.location_id,
     street |-> a.street, city |-> a.city, house_number |-> a.house_number,
     zip_code |-> a.zip_code,
     provides_emergency_services |-> e.provides_services,
     levels |-> IF ~IsNone(e.levels) THEN PyList(e.levels.items) ELSE None]

(***************************************************************************)
(* Documents: the XML trees et.parse(file).getroot() can return.           *)
(***************************************************************************)
\* zero or one child element with the given tag, its text one of texts
Opt(tag, texts) == {<<>>} \cup {<<Elem(tag, t, <<>>)>> : t \in texts}

Tiers == {"Basisnotfallversorgung", "Erweiterte_Notfallversorgung"}

TierSeqs ==
    UNION {[1..n -> {Elem(t, None, <<>>) : t \in Tiers}] : n \in 0..MaxLevels}

NameTexts == {None, PyStr(<<"W", "e", "g">>)}
ZipTexts == {None, PyStr(<<"1", "0">>), PyStr(<<"a", "b">>)}
IkTexts == {None, PyStr(<<"1", "2">>), PyStr(<<"x">>)}
NrTexts == {None, PyStr(<<"1">>), PyStr(<<"2">>), PyStr(<<"1", "a">>)}

GoodZugang ==
    <<Elem("Kontakt_Zugang", None,
           <<Elem("Strasse", PyStr(<<"W", "e", "g">>), <<>>),
             Elem("Ort", PyStr(<<"U", "l", "m">>), <<>>),
             Elem("Hausnummer", PyStr(<<"7", "a">>), <<>>),
             Elem("Postleitzahl", PyStr(<<"1", "0">>), <<>>)>>)>>

AllZugang ==
    {<<>>} \cup
    {<<Elem("Kontakt_Zugang", None, s \o o \o h \o p)>> :
        s \in Opt("Strasse", NameTexts), o \in Opt("Ort", NameTexts),
        h \in Opt("Hausnummer", NameTexts), p \in Opt("Postleitzahl", ZipTexts)}

\* the children of a location entry
Standorte(iks, nrs, zugaenge) ==
    {ik \o nr \o kz : ik \in Opt("IK", iks),
                      nr \in Opt("Standortnummer", nrs), kz \in zugaenge}

OtherStandort ==
    <<Elem("IK", PyStr(<<"9">>), <<>>),
      Elem("Standortnummer", PyStr(<<"9">>), <<>>)>> \o GoodZugang

\* the Krankenhaus part of a document that carries the location entry c
WithStandort(c) ==
    { <<Elem("Krankenhaus", None,
             <<Elem("Mehrere_Standorte", None,
                    <<Elem("Standortkontaktdaten", None, c)>>)>>)>>,
      <<Elem("Krankenhaus", None,
             <<Elem("Ein_Standort", None,
                    <<Elem("Krankenhauskontaktdaten", None, c)>>)>>)>>,
      <<Elem("Krankenhaus", None,
             <<Elem("Ein_Standort", None,
                    <<Elem("Krankenhauskontaktdaten", None, OtherStandort)>>),
               Elem("Mehrere_Standorte", None,
                    <<Elem("Standortkontaktdaten", None, c)>>)>>)>> }

\* the Krankenhaus part of a document in which no location entry is found
WithoutStandort ==
    { <<>>,
      <<Elem("SomeOtherSection", None, <<>>)>>,
      <<Elem("Krankenhaus", None, <<>>)>>,
      <<Elem("Krankenhaus", None, <<Elem("Mehrere_Standorte", None, <<>>)>>)>>,
      <<Elem("Krankenhaus", None, <<Elem("Ein_Standort", None, <<>>)>>)>>,
      <<Elem("Krankenhaus", None,
             <<Elem("Mehrere_Standorte", None, <<>>),
               Elem("Ein_Standort", None,
                    <<Elem("Krankenhauskontaktdaten", None, OtherStandort)>>)>>)>> }

\* the Teilnahme_Notfallversorgung part of a document
AllSections ==
    { <<>>, <<Elem("Teilnahme_Notfallversorgung", None, <<>>)>> } \cup
    { <<Elem("Teilnahme_Notfallversorgung", None,
             <<Elem("Teilnahme_Notfallstufe", None, z \o n \o k)>>)>> :
        k \in Opt("Keine_Teilnahme_Notfallversorgung", {None}),
        n \in Opt("Notfallstufe_Nichtteilnahme_noch_nicht_vereinbart", {None}),
        z \in {<<>>} \cup
              {<<Elem("Notfallstufe_zugeordnet", None, ts)>> : ts \in TierSeqs} }

FewSections ==
    { <<>>,
      <<Elem("Teilnahme_Notfallversorgung", None,
             <<Elem("Teilnahme_Notfallstufe", None,
                    <<Elem("Notfallstufe_zugeordnet", None,
                           <<Elem("Basisnotfallversorgung", None, <<>>)>>)>>)>>)>> }

Root(kh, sec) == Elem("Root", None, kh \o sec)

Docs ==
    { Root(kh, sec) :
        kh \in WithoutStandort \cup
               UNION {WithStandort(c) :
                        c \in Standorte(IkTexts, NrTexts, {<<>>, GoodZugang})},
        sec \in AllSections }
    \cup
    { Root(kh, sec) :
        kh \in UNION {WithStandort(c) :
                        c \in Standorte({PyStr(<<"1", "2">>)}, {PyStr(<<"1">>)},
                                        AllZugang)},
        sec \in FewSections }

(***************************************************************************)
(* The extraction functions applied to one parsed document.                *)
(***************************************************************************)
NoSession == [active |-> FALSE, rows |-> {}]

InitExtract ==
    /\ pc = "parsed"
    /\ doc \in Docs
    /\ address = Unset /\ ems = Unset /\ hospital = Unset
    /\ files = <<>> /\ hospitals = <<>> /\ cursor = 0
    /\ session = NoSession /\ table = {} /\ table0 = {}
    /\ error = "none"

CallGetAddress ==
    /\ pc = "parsed" /\ address = Unset
    /\ address' = get_address(doc)
    /\ UNCHANGED <<pc, doc, ems, hospital, loaderVars>>

CallGetEms ==
    /\ pc = "parsed" /\ ems = Unset
    /\ ems' = get_emergency_medical_services_info(doc)
    /\ UNCHANGED <<pc, doc, address, hospital, loaderVars>>

CallBuildHospital ==
    /\ pc = "parsed"
    /\ address.kind = "Address" /\ ems.kind = "EmergencyMedicalServices"
    /\ hospital' = build_hospital(address, ems)
    /\ pc' = "built"
    /\ UNCHANGED <<doc, address, ems, loaderVars>>

NextExtract == CallGetAddress \/ CallGetEms \/ CallBuildHospital

SpecExtract == InitExtract /\ [][NextExtract]_vars

(***************************************************************************)
(* main: provisioning, the loop over the files, the upserts in one         *)
(* session and the commit.  The hospitals table outlives a run.            *)
(***************************************************************************)
ParseError == [kind |-> "ParseError"]

Zugang(street) ==
    <<Elem("Kontakt_Zugang", None,
           <<Elem("Strasse", street, <<>>),
             Elem("Ort", PyStr(<<"U", "l", "m">>), <<>>),
             Elem("Hausnummer", PyStr(<<"7", "a">>), <<>>),
             Elem("Postleitzahl", PyStr(<<"1", "0">>), <<>>)>>)>>

Level(children) ==
    <<Elem("Teilnahme_Notfallversorgung", None,
           <<Elem("Teilnahme_Notfallstufe", None, children)>>)>>

Report(nr, zugang, section) ==
    Root(<<Elem("Krankenhaus", None,
                <<Elem("Mehrere_Standorte", None,
                       <<Elem("Standortkontaktdaten", None,
                              <<Elem("IK", PyStr(<<"1", "2">>), <<>>),
                                Elem("Standortnummer", PyStr(nr), <<>>)>>
                              \o zugang)>>)>>)>>,
         section)

AssignedTiers(tags) ==
    Level(<<Elem("Notfallstufe_zugeordnet", None,
                 [i \in DOMAIN tags |-> Elem(tags[i], None, <<>>)])>>)

\* what et.parse(file).getroot() gives for the files of data_dir
FileInputs ==
    { ParseError,
      Report(<<"1">>, Zugang(PyStr(<<"W", "e", "g">>)),
             AssignedTiers(<<"Erweiterte_Notfallversorgung",
                             "Basisnotfallversorgung">>)),
      Report(<<"1">>, Zugang(PyStr(<<"A", "u">>)),
             Level(<<Elem("Keine_Teilnahme_Notfallversorgung", None, <<>>)>>)),
      Report(<<"2">>, Zugang(PyStr(<<"W", "e", "g">>)),
             AssignedTiers(<<"Basisnotfallversorgung">>)),
      Report(<<"1">>, <<>>, AssignedTiers(<<"Basisnotfallversorgung">>)),
      Report(<<"1">>, Zugang(PyStr(<<"W", "e", "g">>)), Level(<<>>)),
      Report(<<"2">>, Zugang(None), AssignedTiers(<<"Basisnotfallversorgung">>))
    }

KeyOf(r) == <<r.ik_number, r.location_id>>

\* ON CONFLICT DO NOTHING: the stored row is kept
pg_upsert_DoNothing(rows, h) ==
    IF \/ IsNone(h.street) \/ IsNone(h.city) \/ IsNone(h.house_number)
       \/ IsNone(h.zip_code)
    THEN Raise("IntegrityError")
    ELSE IF \E r \in rows : KeyOf(r) = KeyOf(h) THEN PySetOf(rows)
    ELSE PySetOf(rows \cup {h})

\* INSERT ... ON CONFLICT (ik_number, location_id) DO UPDATE SET non_pk_cols,
\* against the NOT NULL columns of Hospital
pg_upsert(rows, h) ==
    IF \/ IsNone(h.street) \/ IsNone(h.city) \/ IsNone(h.house_number)
       \/ IsNone(h.zip_code)
    THEN Raise("IntegrityError")
    ELSE LET hit == {r \in rows : KeyOf(r) = KeyOf(h)}
         IN  IF hit = {} THEN PySetOf(rows \cup {h})
             ELSE PySetOf((rows \ hit) \cup
                    {[r EXCEPT !.street = h.street, !.city = h.city,
                               !.house_number = h.house_number,
                               !.zip_code = h.zip_code,
                               !.provides_emergency_services =
                                   h.provides_emergency_services,
                               !.levels = h.levels] : r \in hit})

\* an incomplete file still gives a row, without emergency services
LoopBody_DefaultsMissingEms(hs, f) ==
    IF f = ParseError THEN Raise("ParseError")
    ELSE LET a == get_address(f)
             e == get_emergency_medical_services_info(f)
         IN  IF IsRaise(a) THEN a
             ELSE IF IsRaise(e) THEN e
             ELSE IF IsNone(a) THEN PyList(hs)
             ELSE IF IsNone(e)
             THEN PyList(Append(hs, build_hospital(a,
                    EmergencyMedicalServices(a.ik_number, a.location_id,
                                             FALSE, None))))
             ELSE PyList(Append(hs, build_hospital(a, e)))

\* the body of the for loop (lines 178-184): the hospitals list after the
\* file, or the exception the body raises
LoopBody(hs, f) ==
    IF f = ParseError THEN Raise("ParseError")
    ELSE LET a == get_address(f)
             e == get_emergency_medical_services_info(f)
         IN  IF IsRaise(a) THEN a
             ELSE IF IsRaise(e) THEN e
             ELSE IF IsNone(a) \/ IsNone(e) THEN PyList(hs)
             ELSE PyList(Append(hs, build_hospital(a, e)))

Init ==
    /\ pc = "start"
    /\ doc = Unset /\ address = Unset /\ ems = Unset /\ hospital = Unset
    /\ files = <<>> /\ hospitals = <<>> /\ cursor = 0
    /\ session = NoSession /\ table = {} /\ table0 = {}
    /\ error = "none"

\* ensure_schema(engine, schema): the first statement sent to the store
EnsureSchema ==
    /\ pc = "start"
    /\ \E ok \in BOOLEAN :
         IF ok THEN pc' = "create_tables" /\ error' = error
         ELSE pc' = "aborted" /\ error' = "OperationalError"
    /\ UNCHANGED <<extractVars, files, hospitals, cursor, session, table,
                   table0>>

\* create_tables(engine, Base)
CreateTables ==
    /\ pc = "create_tables"
    /\ \E ok \in BOOLEAN :
         IF ok THEN pc' = "loop" /\ error' = error
         ELSE pc' = "aborted" /\ error' = "ProgrammingError"
    /\ UNCHANGED <<extractVars, files, hospitals, cursor, session, table,
                   table0>>

\* one iteration of "for file in files", try and except included
ProcessFile ==
    /\ pc = "loop"
    /\ Len(files) < MaxFiles
    /\ \E f \in FileInputs :
         LET r == LoopBody(hospitals, f)
         IN  /\ files' = Append(files, f)
             /\ IF ~IsRaise(r)
                THEN hospitals' = r.items /\ pc' = pc /\ error' = error
                ELSE IF ExceptionCaught(r.exc)
                THEN hospitals' = hospitals /\ pc' = pc /\ error' = error
                ELSE hospitals' = hospitals /\ pc' = "aborted"
                     /\ error' = r.exc
    /\ UNCHANGED <<extractVars, cursor, session, table, table0>>

\* the loop ends and "with Session(engine) as session" is entered
OpenSession ==
    /\ pc = "loop"
    /\ pc' = "upsert"
    /\ session' = NoSession
    /\ UNCHANGED <<extractVars, files, hospitals, cursor, table, table0,
                   error>>

\* every statement writes through to the table at once
ExecuteUpsert_Autocommit ==
    /\ pc = "upsert"
    /\ cursor < Len(hospitals)
    /\ \E ok \in BOOLEAN :
         LET seen == IF session.active THEN session.rows ELSE table
             r == pg_upsert(seen, hospitals[cursor + 1])
         IN  IF ok /\ ~IsRaise(r)
             THEN /\ session' = [active |-> TRUE, rows |-> r.rows]
                  /\ table' = r.rows
                  /\ cursor' = cursor + 1
                  /\ UNCHANGED <<pc, error>>
             ELSE /\ session' = NoSession
                  /\ pc' = "aborted"
                  /\ error' = IF IsRaise(r) THEN r.exc ELSE "OperationalError"
                  /\ UNCHANGED <<cursor, table>>
    /\ UNCHANGED <<extractVars, files, hospitals, table0>>

\* session.execute(stmt) for the next hospital; an exception leaves the
\* with block, which closes the session and rolls its transaction back
ExecuteUpsert ==
    /\ pc = "upsert"
    /\ cursor < Len(hospitals)
    /\ \E ok \in BOOLEAN :
         LET seen == IF session.active THEN session.rows ELSE table
             r == pg_upsert(seen, hospitals[cursor + 1])
         IN  IF ok /\ ~IsRaise(r)
             THEN /\ session' = [active |-> TRUE, rows |-> r.rows]
                  /\ cursor' = cursor + 1
                  /\ UNCHANGED <<pc, error>>
             ELSE /\ session' = NoSession
                  /\ pc' = "aborted"
                  /\ error' = IF IsRaise(r) THEN r.exc ELSE "OperationalError"
                  /\ UNCHANGED cursor
    /\ UNCHANGED <<extractVars, files, hospitals, table, table0>>

\* session.commit() after the last execute
Commit ==
    /\ pc = "upsert"
    /\ cursor = Len(hospitals)
    /\ \E ok \in BOOLEAN :
         IF ok \/ ~session.active
         THEN /\ table' = IF session.active THEN session.rows ELSE table
              /\ pc' = "done"
              /\ error' = error
         ELSE /\ table' = table
              /\ pc' = "aborted"
              /\ error' = "OperationalError"
    /\ session' = NoSession
    /\ UNCHANGED <<extractVars, files, hospitals, cursor, table0>>

\* the command is invoked again on the same database
NewRun ==
    /\ pc \in {"done", "aborted"}
    /\ pc' = "start"
    /\ files' = <<>> /\ hospitals' = <<>> /\ cursor' = 0
    /\ session' = NoSession
    /\ table0' = table
    /\ error' = "none"
    /\ UNCHANGED <<extractVars, table>>

Next ==
    \/ EnsureSchema
    \/ CreateTables
    \/ ProcessFile
    \/ OpenSession
    \/ ExecuteUpsert
    \/ Commit
    \/ NewRun

Spec == Init /\ [][Next]_vars

(***************************************************************************)
(* Shapes of a document, read off the tree without the extraction code.    *)
(***************************************************************************)
HasChild(e, tag) == \E i \in DOMAIN e.children : e.children[i].tag = tag

FirstChild(e, tag) ==
    e.children[CHOOSE i \in DOMAIN e.children :
                 /\ e.children[i].tag = tag
                 /\ \A j \in 1..(i - 1) : e.children[j].tag # tag]

\* the node a path of tags leads to, None when a step is missing
RECURSIVE At(_, _)
At(e, path) ==
    IF path = <<>> THEN e
    ELSE IF HasChild(e, Head(path))
    THEN At(FirstChild(e, Head(path)), Tail(path))
    ELSE None

Present(e, path) == ~IsNone(At(e, path))

LocationEntry(d) ==
    IF Present(d, <<"Krankenhaus", "Mehrere_Standorte">>)
    THEN At(d, <<"Krankenhaus", "Mehrere_Standorte", "Standortkontaktdaten">>)
    ELSE At(d, <<"Krankenhaus", "Ein_Standort", "Krankenhauskontaktdaten">>)

IsNumeric(t) ==
    /\ t.kind = "str"
    /\ t.s # <<>>
    /\ \A i \in DOMAIN t.s : t.s[i] \in Digits

HasNumber(e, tag) == Present(e, <<tag>>) /\ IsNumeric(At(e, <<tag>>).text)

IdentifierResolves(d) ==
    /\ Present(d, <<"Krankenhaus">>)
    /\ ~IsNone(LocationEntry(d))
    /\ HasNumber(LocationEntry(d), "IK")
    /\ HasNumber(LocationEntry(d), "Standortnummer")

IkOf(d) == PyInt(ParseDigits(At(LocationEntry(d), <<"IK">>).text.s))
NrOf(d) == PyInt(ParseDigits(At(LocationEntry(d), <<"Standortnummer">>).text.s))

SectionPath == <<"Teilnahme_Notfallversorgung">>
LevelPath == <<"Teilnahme_Notfallversorgung", "Teilnahme_Notfallstufe">>
Declined(d) == Present(d, LevelPath \o <<"Keine_Teilnahme_Notfallversorgung">>)
NotYetArranged(d) ==
    Present(d, LevelPath \o
               <<"Notfallstufe_Nichtteilnahme_noch_nicht_vereinbart">>)
Assigned(d) == Present(d, LevelPath \o <<"Notfallstufe_zugeordnet">>)
AssignedNode(d) == At(d, LevelPath \o <<"Notfallstufe_zugeordnet">>)

NoServices(d) ==
    EmergencyMedicalServices(IkOf(d), NrOf(d), FALSE, None)

EmsCalled == ems # Unset
AddressCalled == address # Unset

(***************************************************************************)
(* Claims about the extraction functions.                                  *)
(***************************************************************************)

\* C1: with a resolvable identifier and the Teilnahme_Notfallversorgung
\* section present, the result is that of one ordered rule match: level
\* sub-section missing, declined marker, not-yet-arranged marker (each giving
\* provides_services=False, levels=None), assigned tiers (provides_services
\* =True), else None; a marker wins over an assigned-tiers node, and every
\* record carries the document's (ik_number, location_id).
C1_OrderedRuleMatch ==
    (EmsCalled /\ IdentifierResolves(doc) /\ Present(doc, SectionPath)) =>
        IF ~Present(doc, LevelPath) THEN ems = NoServices(doc)
        ELSE IF Declined(doc) THEN ems = NoServices(doc)
        ELSE IF NotYetArranged(doc) THEN ems = NoServices(doc)
        ELSE IF Assigned(doc)
        THEN /\ ems.kind = "EmergencyMedicalServices"
             /\ ems.provides_services = TRUE
             /\ ems.ik_number = IkOf(doc) /\ ems.location_id = NrOf(doc)
        ELSE ems = None

C1_Witness ==
    /\ EmsCalled /\ IdentifierResolves(doc)
    /\ NotYetArranged(doc) /\ ~Declined(doc) /\ Assigned(doc)
    /\ Len(AssignedNode(doc).children) = 2
    /\ ems = NoServices(doc)

\* C2: with a resolvable identifier and an assigned-tiers node (no marker),
\* levels is the sequence of the tag names of that node's children in
\* document order (same length, same order, duplicates kept), and
\* build_hospital carries the same sequence into the row's levels column.
C2_LevelsInDocumentOrder ==
    (IdentifierResolves(doc) /\ Assigned(doc)
       /\ ~Declined(doc) /\ ~NotYetArranged(doc)) =>
        LET kids == AssignedNode(doc).children
        IN  /\ EmsCalled =>
                /\ ems.kind = "EmergencyMedicalServices"
                /\ ems.provides_services = TRUE
                /\ ems.levels.kind = "tuple"
                /\ Len(ems.levels.items) = Len(kids)
                /\ \A i \in 1..Len(kids) : ems.levels.items[i] = kids[i].tag
            /\ pc = "built" =>
                /\ hospital.levels.kind = "list"
                /\ Len(hospital.levels.items) = Len(kids)
                /\ \A i \in 1..Len(kids) :
                      hospital.levels.items[i] = kids[i].tag

C2_Witness ==
    /\ pc = "built"
    /\ IdentifierResolves(doc) /\ Assigned(doc)
    /\ ~Declined(doc) /\ ~NotYetArranged(doc)
    /\ hospital.levels =
         PyList(<<"Erweiterte_Notfallversorgung", "Basisnotfallversorgung">>)

\* C3 (as stated): with a resolvable identifier and the section
\* Teilnahme_Notfallversorgung absent from the document, the result is the
\* record with provides_services=False and levels=None.
C3_AbsentSectionGivesNoServices ==
    (EmsCalled /\ IdentifierResolves(doc) /\ ~Present(doc, SectionPath)) =>
        ems = NoServices(doc)

\* C3 (amended): with a resolvable identifier, a document without the section
\* Teilnahme_Notfallversorgung gives None; the record with
\* provides_services=False and levels=None is the result when the section
\* is present and its sub-section Teilnahme_Notfallstufe is absent.
C3_AbsentSectionGivesNone ==
    (EmsCalled /\ IdentifierResolves(doc)) =>
        /\ ~Present(doc, SectionPath) => ems = None
        /\ (Present(doc, SectionPath) /\ ~Present(doc, LevelPath)) =>
              (ems.kind = "EmergencyMedicalServices"
               /\ ems.provides_services = FALSE /\ IsNone(ems.levels))

C3_Witness ==
    /\ EmsCalled /\ IdentifierResolves(doc)
    /\ ~Present(doc, SectionPath)
    /\ ems = None

\* C4 (as stated): a document whose Teilnahme_Notfallversorgung section is
\* present without a Teilnahme_Notfallstufe sub-node gives None, whether or
\* not the identifier resolves.
C4_EmptySectionGivesNone ==
    (EmsCalled /\ Present(doc, SectionPath) /\ ~Present(doc, LevelPath)) =>
        ems = None

\* C4 (amended): a document whose Teilnahme_Notfallversorgung section is
\* present without a Teilnahme_Notfallstufe sub-node gives None when the
\* identifier does not resolve, and the record (ik_number, location_id,
\* provides_services=False, levels=None) when it resolves.
C4_EmptySectionByIdentifier ==
    (EmsCalled /\ Present(doc, SectionPath) /\ ~Present(doc, LevelPath)) =>
        IF IdentifierResolves(doc) THEN ems = NoServices(doc) ELSE ems = None

C4_Witness ==
    /\ EmsCalled /\ Present(doc, SectionPath) /\ ~Present(doc, LevelPath)
    /\ IdentifierResolves(doc)
    /\ ems = NoServices(doc)

\* C5: every record returned has levels a non-empty sequence if and only if
\* provides_services is True, and levels None when provides_services is False.
C5_LevelsIffProvides ==
    (EmsCalled /\ ems.kind = "EmergencyMedicalServices") =>
        /\ ems.provides_services <=>
              (ems.levels.kind = "tuple" /\ ems.levels.items # <<>>)
        /\ ~ems.provides_services => IsNone(ems.levels)

\* C6: when the identifier cannot be resolved, get_address and
\* get_emergency_medical_services_info both return None, whatever else the
\* document holds, and no exception reaches the caller.
C6_UnresolvedIdentifierGivesNone ==
    ~IdentifierResolves(doc) =>
        /\ AddressCalled => address = None
        /\ EmsCalled => ems = None

C6_Witness ==
    /\ AddressCalled /\ EmsCalled
    /\ ~IsNone(LocationEntry(doc))
    /\ Present(LocationEntry(doc), <<"IK">>)
    /\ ~IsNumeric(At(LocationEntry(doc), <<"IK">>).text)
    /\ At(LocationEntry(doc), <<"IK">>).text.kind = "str"
    /\ HasNumber(LocationEntry(doc), "Standortnummer")
    /\ Present(LocationEntry(doc), <<"Kontakt_Zugang">>)
    /\ Assigned(doc) /\ ~Declined(doc) /\ ~NotYetArranged(doc)
    /\ address = None /\ ems = None

\* C7: get_address returns None or an Address whose street, city and
\* house_number are present text values and whose zip_code is an integer;
\* a missing or ill-formed contact field (node absent, node without text,
\* non-numeric postal code) gives None.
C7_AddressFullyPopulated ==
    AddressCalled =>
        \/ address = None
        \/ /\ address.kind = "Address"
           /\ address.street.kind = "str"
           /\ address.city.kind = "str"
           /\ address.house_number.kind = "str"
           /\ address.zip_code.kind = "int"

(***************************************************************************)
(* Claims about main.                                                      *)
(***************************************************************************)
Complete(f) ==
    /\ f # ParseError
    /\ get_address(f).kind = "Address"
    /\ get_emergency_medical_services_info(f).kind = "EmergencyMedicalServices"

RowOf(f) ==
    build_hospital(get_address(f), get_emergency_medical_services_info(f))

\* the rows of the complete files among fs, in the order of the files
RECURSIVE ExpectedRows(_)
ExpectedRows(fs) ==
    IF fs = <<>> THEN <<>>
    ELSE ExpectedRows(SubSeq(fs, 1, Len(fs) - 1)) \o
         (IF Complete(fs[Len(fs)]) THEN <<RowOf(fs[Len(fs)])>> ELSE <<>>)

StoreErrors == {"OperationalError", "ProgrammingError", "IntegrityError"}

\* C8: a file contributes a row to the batch if and only if it parsed and
\* both its Address and its EmergencyMedicalServices were extracted; a file
\* that fails to parse or is incomplete contributes nothing, never ends the
\* run, and the rows of the other files are written when the run commits.
C8_BatchIsTheCompleteFiles ==
    /\ hospitals = ExpectedRows(files)
    /\ pc = "aborted" => error \in StoreErrors
    /\ pc = "done" =>
          \A i \in DOMAIN files :
             Complete(files[i]) =>
                \E r \in table : KeyOf(r) = KeyOf(RowOf(files[i]))

C8_Witness ==
    /\ pc = "done"
    /\ Len(files) = 2
    /\ ~Complete(files[1]) /\ Complete(files[2])
    /\ hospitals = <<RowOf(files[2])>>
    /\ RowOf(files[2]) \in table
    /\ RowOf(files[2]) \notin table0

UniqueKeys(rows) ==
    \A r1 \in rows : \A r2 \in rows : KeyOf(r1) = KeyOf(r2) => r1 = r2

\* rows0 after the first n rows of the batch, each key holding its last row
Applied(rows0, n) ==
    {r \in rows0 : \A i \in 1..n : KeyOf(hospitals[i]) # KeyOf(r)} \cup
    {hospitals[i] : i \in {j \in 1..n :
        \A k \in (j + 1)..n : KeyOf(hospitals[k]) # KeyOf(hospitals[j])}}

HasNull(h) == IsNone(h.street) \/ IsNone(h.city) \/ IsNone(h.house_number)

\* C9: the hospitals table holds at most one row per (ik_number,
\* location_id); a row whose key is already stored (earlier run or earlier in
\* the batch) is overwritten, not duplicated and not refused with a
\* duplicate-key failure; after a commit every row equals the most recently
\* applied extraction for its key, levels included (NULL when absent).
C9_UpsertLastWriteWins ==
    /\ UniqueKeys(table)
    /\ UniqueKeys(session.rows)
    /\ session.active => session.rows = Applied(table0, cursor)
    /\ pc = "done" => table = Applied(table0, Len(hospitals))
    /\ error = "IntegrityError" =>
          (cursor < Len(hospitals) /\ HasNull(hospitals[cursor + 1]))

C9_Witness ==
    /\ pc = "done"
    /\ Len(hospitals) = 2
    /\ KeyOf(hospitals[1]) = KeyOf(hospitals[2])
    /\ hospitals[1] # hospitals[2]
    /\ IsNone(hospitals[2].levels)
    /\ \E r \in table0 :
          KeyOf(r) = KeyOf(hospitals[2]) /\ ~IsNone(r.levels)
    /\ {r \in table : KeyOf(r) = KeyOf(hospitals[2])} = {hospitals[2]}

\* C10: provisioning comes before any file is parsed and before any upsert;
\* a run that ends with an error leaves the rows of the table as they were
\* before the run, and the rows change only at the one commit after the last
\* upsert, when every row of the batch is persisted.
C10_FailedRunWritesNothing ==
    /\ pc \in {"start", "create_tables"} =>
          (files = <<>> /\ hospitals = <<>>)
    /\ pc \in {"start", "create_tables", "loop"} =>
          (cursor = 0 /\ ~session.active)
    /\ pc # "done" => table = table0
    /\ pc = "done" =>
          /\ cursor = Len(hospitals)
          /\ \A i \in DOMAIN hospitals :
                \E r \in table : KeyOf(r) = KeyOf(hospitals[i])

C10_Witness ==
    /\ pc = "aborted"
    /\ error = "IntegrityError"
    /\ Len(hospitals) = 2
    /\ cursor = 1
    /\ hospitals[1] \notin table0
    /\ table = table0

====
